---- MODULE Spec2Model ----
(***************************************************************************)
(* Content moderation decision logic                                       *)
(* (models/moderation-decision-logic/1/model.py, class TritonPythonModel). *)
(*                                                                         *)
(* Numbers.  The engine computes with floats; here every float is an exact *)
(* fixed-point number: Units is the number of fixed-point units in 0.01,   *)
(* so that the means the engine takes (over the text confidences, then     *)
(* over the three factor confidences) are exact.  P(h) is the value        *)
(* h/100.  Floating-point rounding is not modelled.                        *)
(*                                                                         *)
(* Strings.  A str (and a bytes value holding ASCII text) is a sequence of *)
(* one-character strings, so that join, lower, strip and the substring     *)
(* test are computed as Python computes them.  Enumerated byte strings     *)
(* that are only compared for equality (risk_level) are TLA+ strings.      *)
(* A formatted string is the tuple of its template and its arguments.      *)
(*                                                                         *)
(* Tensors.  A request maps tensor names to arrays (sequences); a tensor   *)
(* the request does not carry is absent from its domain.  text_confidence  *)
(* also carries its dtype, because np.mean returns a numpy scalar of that  *)
(* dtype and json.dumps accepts np.float64 (a float) but not np.float32.   *)
(***************************************************************************)
EXTENDS Integers, Sequences, FiniteSets, TLC

\* ------------------------------------------------------------------ bounds
\* longest text_confidence tensor
MaxConfs == 2
\* largest number of OCR fragments in one ocr_text tensor
MaxTexts == 2
\* largest number of requests in one execute() call
MaxBatch == 2
\* largest number of execute() calls in flight on one engine
MaxCalls == 2

\* ------------------------------------------------------------- arithmetic
RECURSIVE Gcd(_, _)
Gcd(a, b) == IF b = 0 THEN a ELSE Gcd(b, a % b)

RECURSIVE LcmUpTo(_)
LcmUpTo(n) == IF n <= 1 THEN 1
              ELSE LET l == LcmUpTo(n - 1) IN (l * n) \div Gcd(l, n)

\* fixed-point units per 0.01: divisible by every tensor length and by 3
Units == 3 * LcmUpTo(MaxConfs)

\* the float h/100
P(h) == h * Units

RECURSIVE SumSeq(_)
SumSeq(s) == IF s = <<>> THEN 0 ELSE Head(s) + SumSeq(Tail(s))

\* np.mean over a non-empty list or array
np_mean(s) == SumSeq(s) \div Len(s)

\* max() over a non-empty list
max(s) == CHOOSE m \in {s[i] : i \in 1..Len(s)} : \A i \in 1..Len(s) : s[i] <= m

\* -------------------------------------------------------------- str methods
UpperCase == <<"A","B","C","D","E","F","G","H","I","J","K","L","M",
               "N","O","P","Q","R","S","T","U","V","W","X","Y","Z">>
LowerCase == <<"a","b","c","d","e","f","g","h","i","j","k","l","m",
               "n","o","p","q","r","s","t","u","v","w","x","y","z">>
Whitespace == {" ", "\t", "\n", "\r", "\f"}

lower_char(c) == IF \E i \in 1..26 : UpperCase[i] = c
                 THEN LowerCase[CHOOSE i \in 1..26 : UpperCase[i] = c]
                 ELSE c

\* str.lower()
lower(s) == [i \in 1..Len(s) |-> lower_char(s[i])]

RECURSIVE lstrip(_)
lstrip(s) == IF s # <<>> /\ Head(s) \in Whitespace THEN lstrip(Tail(s)) ELSE s

RECURSIVE rstrip(_)
rstrip(s) == IF s # <<>> /\ s[Len(s)] \in Whitespace
             THEN rstrip(SubSeq(s, 1, Len(s) - 1)) ELSE s

\* str.strip()
strip(s) == rstrip(lstrip(s))

\* sep.join(parts)
RECURSIVE join(_, _)
join(sep, parts) == IF parts = <<>> THEN <<>>
                    ELSE IF Len(parts) = 1 THEN parts[1]
                    ELSE parts[1] \o sep \o join(sep, Tail(parts))

\* the Python test `sub in s` on two str
contains(s, sub) == \E i \in 0..(Len(s) - Len(sub)) : SubSeq(s, i + 1, i + Len(sub)) = sub

\* str(bool)
str_bool(b) == IF b THEN "True" ELSE "False"

\* ------------------------------------------------------------- exceptions
\* the value of an expression: a result, or a raised exception
Return(v) == [ok |-> TRUE, val |-> v]
Raise(e) == [ok |-> FALSE, exc |-> e]

\* a[i] on an array of the given size, i out of bounds
IndexError(i, size) == <<"IndexError", i, size>>

\* bytes.decode('utf-8'): the bytes of ASCII text decode to the same
\* characters; the byte 0xFF occurs in no UTF-8 encoding and makes it raise
decode_utf8(bytes) ==
  IF \E k \in 1..Len(bytes) : bytes[k] = "0xFF"
  THEN Raise(<<"UnicodeDecodeError", "'utf-8' codec can't decode byte 0xff">>)
  ELSE Return(bytes)

\* ------------------------------------------------------------- the engine
VARIABLES
  phase,                          \* "created", "ready" (initialize ran), "finalized"
  safety_threshold,               \* self.safety_threshold
  content_confidence_threshold,   \* self.content_confidence_threshold
  text_confidence_threshold,      \* self.text_confidence_threshold
  sensitive_categories,           \* self.sensitive_categories
  blocked_keywords,               \* self.blocked_keywords
  requests,                       \* the argument of the last execute() call
  responses,                      \* the list the last execute() call returned
  calls,                          \* the locals of the execute() calls in flight, per call
  run,                            \* one execute() call taken loop iteration by loop iteration
  api                             \* the last HTTP exchange of a client backend

vars == <<phase, safety_threshold, content_confidence_threshold,
          text_confidence_threshold, sensitive_categories, blocked_keywords,
          requests, responses, calls, run, api>>

config == <<safety_threshold, content_confidence_threshold,
            text_confidence_threshold, sensitive_categories, blocked_keywords>>

\* an attribute that initialize() has not yet set
Unset == <<>>

\* _evaluate_safety with the nsfw cutoff taken inclusively (>= for >)
_evaluate_safety_inclusive(safety_scores, is_safe, risk_level) ==
  IF Len(safety_scores) < 2
  THEN Raise(IndexError(Len(safety_scores), Len(safety_scores)))
  ELSE IF ~is_safe \/ risk_level = "HIGH"
  THEN Return([result |-> "REJECT", confidence |-> P(95),
               reason |-> <<"Safety violation", <<>>>>])
  ELSE IF risk_level = "MEDIUM" \/ safety_scores[2] >= P(30)
  THEN Return([result |-> "REVIEW", confidence |-> P(70),
               reason |-> <<"Moderate risk detected", <<>>>>])
  ELSE Return([result |-> "APPROVE", confidence |-> safety_scores[1],
               reason |-> <<"Content appears safe", <<>>>>])

\* _evaluate_safety approving only a safe score that reaches self.safety_threshold
\* (a lower one is sent to review)
_evaluate_safety_thresholded(safety_scores, is_safe, risk_level) ==
  IF Len(safety_scores) < 2
  THEN Raise(IndexError(Len(safety_scores), Len(safety_scores)))
  ELSE IF ~is_safe \/ risk_level = "HIGH"
  THEN Return([result |-> "REJECT", confidence |-> P(95),
               reason |-> <<"Safety violation", <<>>>>])
  ELSE IF risk_level = "MEDIUM" \/ safety_scores[2] > P(30)
          \/ safety_scores[1] < safety_threshold
  THEN Return([result |-> "REVIEW", confidence |-> P(70),
               reason |-> <<"Moderate risk detected", <<>>>>])
  ELSE Return([result |-> "APPROVE", confidence |-> safety_scores[1],
               reason |-> <<"Content appears safe", <<>>>>])

\* _evaluate_safety(safety_scores, is_safe, risk_level)
_evaluate_safety(safety_scores, is_safe, risk_level) ==
  IF Len(safety_scores) < 2
  THEN Raise(IndexError(Len(safety_scores), Len(safety_scores)))
  ELSE LET safe_score == safety_scores[1]
           nsfw_score == safety_scores[2]
       IN  IF ~is_safe \/ risk_level = "HIGH"
           THEN Return([result |-> "REJECT", confidence |-> P(95),
                        reason |-> <<"Safety violation", <<>>>>])
           ELSE IF risk_level = "MEDIUM" \/ nsfw_score > P(30)
           THEN Return([result |-> "REVIEW", confidence |-> P(70),
                        reason |-> <<"Moderate risk detected", <<>>>>])
           ELSE Return([result |-> "APPROVE", confidence |-> safe_score,
                        reason |-> <<"Content appears safe", <<>>>>])

\* _evaluate_content with the threshold taken inclusively (<= for <)
_evaluate_content_inclusive(content_class, confidence) ==
  IF content_class \in sensitive_categories
  THEN [result |-> "REJECT", confidence |-> confidence,
        reason |-> <<"Sensitive category", <<>>>>]
  ELSE IF confidence <= content_confidence_threshold
  THEN [result |-> "REVIEW", confidence |-> confidence,
        reason |-> <<"Low classification confidence", <<>>>>]
  ELSE [result |-> "APPROVE", confidence |-> confidence,
        reason |-> <<"Appropriate content category", <<>>>>]

\* _evaluate_content(content_class, confidence)
_evaluate_content(content_class, confidence) ==
  IF content_class \in sensitive_categories
  THEN [result |-> "REJECT", confidence |-> confidence,
        reason |-> <<"Sensitive category", <<>>>>]
  ELSE IF confidence < content_confidence_threshold
  THEN [result |-> "REVIEW", confidence |-> confidence,
        reason |-> <<"Low classification confidence", <<>>>>]
  ELSE [result |-> "APPROVE", confidence |-> confidence,
        reason |-> <<"Appropriate content category", <<>>>>]

\* the first keyword of the list, in list order, that occurs in text; 0 if none
RECURSIVE first_keyword_from(_, _)
first_keyword_from(k, text) ==
  IF k > Len(blocked_keywords) THEN 0
  ELSE IF contains(text, blocked_keywords[k]) THEN k
  ELSE first_keyword_from(k + 1, text)

\* the keyword scan without the early return: the last match wins
last_keyword(text) ==
  LET hits == {k \in 1..Len(blocked_keywords) : contains(text, blocked_keywords[k])}
  IN  IF hits = {} THEN 0 ELSE CHOOSE k \in hits : \A j \in hits : j <= k

first_keyword(text) == first_keyword_from(1, text)

\* text_checks with the OCR threshold taken inclusively (<= for <)
text_checks_inclusive(text, text_confidences) ==
  IF first_keyword(text) # 0
  THEN [result |-> "REJECT", confidence |-> P(90), type |-> "float",
        reason |-> <<"Blocked keyword: ", blocked_keywords[first_keyword(text)]>>]
  ELSE
  LET data == text_confidences.data
      avg_confidence == IF Len(data) > 0 THEN np_mean(data) ELSE P(0)
      avg_type == IF Len(data) > 0
                  THEN (IF text_confidences.dtype = "FP32"
                        THEN "np.float32" ELSE "np.float64")
                  ELSE "float"
  IN  IF avg_confidence <= text_confidence_threshold
      THEN [result |-> "REVIEW", confidence |-> avg_confidence, type |-> avg_type,
            reason |-> <<"Low OCR confidence", <<>>>>]
      ELSE [result |-> "APPROVE", confidence |-> avg_confidence, type |-> avg_type,
            reason |-> <<"Text content acceptable", <<>>>>]

\* the keyword scan and the OCR confidence check of _evaluate_text
text_checks(text, text_confidences) ==
  IF first_keyword(text) # 0
  THEN [result |-> "REJECT", confidence |-> P(90), type |-> "float",
        reason |-> <<"Blocked keyword: ", blocked_keywords[first_keyword(text)]>>]
  ELSE
  LET data == text_confidences.data
      avg_confidence == IF Len(data) > 0 THEN np_mean(data) ELSE P(0)
      avg_type == IF Len(data) > 0
                  THEN (IF text_confidences.dtype = "FP32"
                        THEN "np.float32" ELSE "np.float64")
                  ELSE "float"
  IN  IF avg_confidence < text_confidence_threshold
      THEN [result |-> "REVIEW", confidence |-> avg_confidence, type |-> avg_type,
            reason |-> <<"Low OCR confidence", <<>>>>]
      ELSE [result |-> "APPROVE", confidence |-> avg_confidence, type |-> avg_type,
            reason |-> <<"Text content acceptable", <<>>>>]

\* _evaluate_text testing `not text` for `not text.strip()`
_evaluate_text_unstripped(text, text_confidences) ==
  IF text = <<>>
  THEN [result |-> "APPROVE", confidence |-> P(100), type |-> "float",
        reason |-> <<"No text detected", <<>>>>]
  ELSE text_checks(text, text_confidences)

\* _evaluate_text(text, text_confidences); the factor confidence carries the
\* numeric type Python gives it: "float", or the numpy scalar type np.mean
\* returns for the tensor's dtype
_evaluate_text(text, text_confidences) ==
  IF strip(text) = <<>>
  THEN [result |-> "APPROVE", confidence |-> P(100), type |-> "float",
        reason |-> <<"No text detected", <<>>>>]
  ELSE text_checks(text, text_confidences)

\* the factors in dict insertion order
FactorNames == <<"safety_check", "content_check", "text_check">>

\* the list [f(x) for x in seq if p(x)] over the factor values
RECURSIVE reject_confidences(_, _)
reject_confidences(factors, k) ==
  IF k > Len(FactorNames) THEN <<>>
  ELSE (IF factors[FactorNames[k]].result = "REJECT"
        THEN <<factors[FactorNames[k]].confidence>> ELSE <<>>)
       \o reject_confidences(factors, k + 1)

\* the confidences of the factors with the given results, in factor order
RECURSIVE confidences_where(_, _, _)
confidences_where(factors, rs, k) ==
  IF k > Len(FactorNames) THEN <<>>
  ELSE (IF factors[FactorNames[k]].result \in rs
        THEN <<factors[FactorNames[k]].confidence>> ELSE <<>>)
       \o confidences_where(factors, rs, k + 1)

AllResults == {"APPROVE", "REVIEW", "REJECT"}

\* _combine_decision_factors testing 'REVIEW' in results before 'REJECT'
_combine_review_first(factors) ==
  IF confidences_where(factors, {"REVIEW"}, 1) # <<>>
  THEN [decision |-> "REVIEW_REQUIRED",
        confidence |-> np_mean(confidences_where(factors, AllResults, 1))]
  ELSE IF confidences_where(factors, {"REJECT"}, 1) # <<>>
  THEN [decision |-> "REJECTED",
        confidence |-> max(confidences_where(factors, {"REJECT"}, 1))]
  ELSE [decision |-> "APPROVED",
        confidence |-> np_mean(confidences_where(factors, AllResults, 1))]

\* _combine_decision_factors asking for two REVIEW factors (a majority)
_combine_review_majority(factors) ==
  IF confidences_where(factors, {"REJECT"}, 1) # <<>>
  THEN [decision |-> "REJECTED",
        confidence |-> max(confidences_where(factors, {"REJECT"}, 1))]
  ELSE IF Len(confidences_where(factors, {"REVIEW"}, 1)) >= 2
  THEN [decision |-> "REVIEW_REQUIRED",
        confidence |-> np_mean(confidences_where(factors, AllResults, 1))]
  ELSE [decision |-> "APPROVED",
        confidence |-> np_mean(confidences_where(factors, AllResults, 1))]

\* _combine_decision_factors with the REJECT and REVIEW tests made on the
\* safety and content results only
_combine_without_text(factors) ==
  LET two == {factors["safety_check"].result, factors["content_check"].result}
  IN  IF "REJECT" \in two
      THEN [decision |-> "REJECTED",
            confidence |-> max(<<factors["safety_check"].confidence>>
                               \o confidences_where(factors, {"REJECT"}, 1))]
      ELSE IF "REVIEW" \in two
      THEN [decision |-> "REVIEW_REQUIRED",
            confidence |-> np_mean(confidences_where(factors, AllResults, 1))]
      ELSE [decision |-> "APPROVED",
            confidence |-> np_mean(confidences_where(factors, AllResults, 1))]

\* _combine_decision_factors taking max(confidences) in the REJECT branch
_combine_max_of_all(factors) ==
  IF confidences_where(factors, {"REJECT"}, 1) # <<>>
  THEN [decision |-> "REJECTED",
        confidence |-> max(confidences_where(factors, AllResults, 1))]
  ELSE IF confidences_where(factors, {"REVIEW"}, 1) # <<>>
  THEN [decision |-> "REVIEW_REQUIRED",
        confidence |-> np_mean(confidences_where(factors, AllResults, 1))]
  ELSE [decision |-> "APPROVED",
        confidence |-> np_mean(confidences_where(factors, AllResults, 1))]

\* _combine_decision_factors averaging, in the REVIEW branch, over the REVIEW
\* factors only (as the REJECT branch does over the REJECT factors)
_combine_mean_of_review(factors) ==
  IF confidences_where(factors, {"REJECT"}, 1) # <<>>
  THEN [decision |-> "REJECTED",
        confidence |-> max(confidences_where(factors, {"REJECT"}, 1))]
  ELSE IF confidences_where(factors, {"REVIEW"}, 1) # <<>>
  THEN [decision |-> "REVIEW_REQUIRED",
        confidence |-> np_mean(confidences_where(factors, {"REVIEW"}, 1))]
  ELSE [decision |-> "APPROVED",
        confidence |-> np_mean(confidences_where(factors, AllResults, 1))]

\* _combine_decision_factors taking, in the REJECT branch, the confidence of
\* the first REJECT factor in factor order instead of the largest
_combine_first_reject(factors) ==
  IF confidences_where(factors, {"REJECT"}, 1) # <<>>
  THEN [decision |-> "REJECTED",
        confidence |-> confidences_where(factors, {"REJECT"}, 1)[1]]
  ELSE IF confidences_where(factors, {"REVIEW"}, 1) # <<>>
  THEN [decision |-> "REVIEW_REQUIRED",
        confidence |-> np_mean(confidences_where(factors, AllResults, 1))]
  ELSE [decision |-> "APPROVED",
        confidence |-> np_mean(confidences_where(factors, AllResults, 1))]

\* _combine_decision_factors(factors)
_combine_decision_factors(factors) ==
  LET results == [k \in 1..Len(FactorNames) |-> factors[FactorNames[k]].result]
      confidences == [k \in 1..Len(FactorNames) |-> factors[FactorNames[k]].confidence]
      in_results(r) == \E k \in 1..Len(results) : results[k] = r
  IN  IF in_results("REJECT")
      THEN [decision |-> "REJECTED", confidence |-> max(reject_confidences(factors, 1))]
      ELSE IF in_results("REVIEW")
      THEN [decision |-> "REVIEW_REQUIRED", confidence |-> np_mean(confidences)]
      ELSE [decision |-> "APPROVED", confidence |-> np_mean(confidences)]

\* _get_content_category_name(class_id): category_map.get(class_id, f'class_{class_id}')
category_map == [c \in {281, 285, 413, 939} |->
                   CASE c = 281 -> "tabby_cat"
                     [] c = 285 -> "egyptian_cat"
                     [] c = 413 -> "assault_rifle"
                     [] c = 939 -> "bikini"]

\* _get_content_category_name with a fixed default: category_map.get(class_id, 'unknown')
_get_content_category_name_unknown(class_id) ==
  IF class_id \in {281, 285, 413, 939}
  THEN <<CASE class_id = 281 -> "tabby_cat"
           [] class_id = 285 -> "egyptian_cat"
           [] class_id = 413 -> "assault_rifle"
           [] class_id = 939 -> "bikini", <<>>>>
  ELSE <<"unknown", <<>>>>

_get_content_category_name(class_id) ==
  IF class_id \in DOMAIN category_map
  THEN <<category_map[class_id], <<>>>>
  ELSE <<"class_", class_id>>

\* the tensors _extract_inputs reads, in the order it reads them
InputNames == <<"content_scores", "content_class", "content_confidence",
                "safety_scores", "is_safe", "risk_level",
                "ocr_text", "text_confidence", "detected_language">>

\* _extract_inputs(request): get_input_tensor_by_name gives None for a tensor
\* the request does not carry, and None.as_numpy() raises
_extract_inputs(request) ==
  IF \E k \in 1..Len(InputNames) : InputNames[k] \notin DOMAIN request
  THEN Raise(<<"AttributeError", "'NoneType' object has no attribute 'as_numpy'">>)
  ELSE Return([n \in {InputNames[k] : k \in 1..Len(InputNames)} |-> request[n]])

\* json.dumps of a decision_factors dict whose 'content_check' and 'text_check'
\* entries were stored under each other's key
json_dumps_swapped(decision_factors, content_class, safety_scores, risk_level) ==
  IF \E k \in 1..Len(FactorNames) :
        "type" \in DOMAIN decision_factors[FactorNames[k]]
        /\ decision_factors[FactorNames[k]].type = "np.float32"
  THEN Raise(<<"TypeError", "Object of type float32 is not JSON serializable">>)
  ELSE LET stored(n) == IF n = "content_check" THEN "text_check"
                        ELSE IF n = "text_check" THEN "content_check" ELSE n
       IN  Return([decision_factors |->
                     [n \in DOMAIN decision_factors |->
                        [result |-> decision_factors[stored(n)].result,
                         confidence |-> decision_factors[stored(n)].confidence,
                         reason |-> decision_factors[stored(n)].reason]],
                   model_version |-> "v2.1.0",
                   processing_time_ms |-> 0,
                   content_class_id |-> content_class,
                   safety_scores |-> safety_scores,
                   risk_level |-> risk_level])

\* json.dumps of the metadata dict: a numpy float32 scalar is not a float and
\* is not serializable; the JSON text keeps result, confidence and reason
json_dumps(decision_factors, content_class, safety_scores, risk_level) ==
  IF \E k \in 1..Len(FactorNames) :
        "type" \in DOMAIN decision_factors[FactorNames[k]]
        /\ decision_factors[FactorNames[k]].type = "np.float32"
  THEN Raise(<<"TypeError", "Object of type float32 is not JSON serializable">>)
  ELSE Return([decision_factors |->
                 [n \in DOMAIN decision_factors |->
                    [result |-> decision_factors[n].result,
                     confidence |-> decision_factors[n].confidence,
                     reason |-> decision_factors[n].reason]],
               model_version |-> "v2.1.0",
               processing_time_ms |-> 0,
               content_class_id |-> content_class,
               safety_scores |-> safety_scores,
               risk_level |-> risk_level])

\* ' '.join(ocr_texts).lower()
combined_text_of(ocr_texts) == lower(join(<<" ">>, ocr_texts))

\* _make_moderation_decision(inputs)
_make_moderation_decision(inputs) ==
  IF Len(inputs.content_class) = 0 THEN Raise(IndexError(0, 0))
  ELSE IF Len(inputs.content_confidence) = 0 THEN Raise(IndexError(0, 0))
  ELSE IF Len(inputs.safety_scores) = 0 THEN Raise(IndexError(0, 0))
  ELSE IF Len(inputs.is_safe) = 0 THEN Raise(IndexError(0, 0))
  ELSE IF Len(inputs.risk_level) = 0 THEN Raise(IndexError(0, 0))
  ELSE IF \E k \in 1..Len(inputs.ocr_text) : ~decode_utf8(inputs.ocr_text[k]).ok
  THEN Raise(<<"UnicodeDecodeError", "'utf-8' codec can't decode byte 0xff">>)
  ELSE
  LET content_class == inputs.content_class[1]
      content_confidence == inputs.content_confidence[1]
      safety_scores == inputs.safety_scores[1]
      is_safe == inputs.is_safe[1]
      risk_level == inputs.risk_level[1]
      ocr_texts == [k \in 1..Len(inputs.ocr_text) |-> decode_utf8(inputs.ocr_text[k]).val]
      combined_text == combined_text_of(ocr_texts)
      safety_check == _evaluate_safety(safety_scores, is_safe, risk_level)
  IN  IF ~safety_check.ok
      THEN safety_check
      ELSE
      LET decision_factors ==
            [n \in {FactorNames[k] : k \in 1..Len(FactorNames)} |->
               CASE n = "safety_check" -> safety_check.val
                 [] n = "content_check" -> _evaluate_content(content_class, content_confidence)
                 [] n = "text_check" -> _evaluate_text(combined_text, inputs.text_confidence)]
          final_decision == _combine_decision_factors(decision_factors)
          processing_metadata == json_dumps(decision_factors, content_class,
                                            safety_scores, risk_level)
      IN  IF ~processing_metadata.ok
          THEN processing_metadata
          ELSE Return([moderation_decision |-> final_decision.decision,
                       confidence_score |-> final_decision.confidence,
                       content_category |-> _get_content_category_name(content_class),
                       safety_assessment |-> <<"Risk: ", risk_level, ", Safe: ", str_bool(is_safe)>>,
                       extracted_text |-> ocr_texts,
                       processing_metadata |-> processing_metadata.val])

\* _create_response_tensors putting the text the keyword scan saw, fragment by
\* fragment, in the extracted_text tensor
_create_response_tensors_lowered(result) ==
  [moderation_decision |-> <<result.moderation_decision>>,
   confidence_score |-> <<result.confidence_score>>,
   content_category |-> <<result.content_category>>,
   safety_assessment |-> <<result.safety_assessment>>,
   extracted_text |-> [k \in 1..Len(result.extracted_text) |-> lower(result.extracted_text[k])],
   processing_metadata |-> <<result.processing_metadata>>]

\* _create_response_tensors(result): one output tensor per key of the result
_create_response_tensors(result) ==
  [moderation_decision |-> <<result.moderation_decision>>,
   confidence_score |-> <<result.confidence_score>>,
   content_category |-> <<result.content_category>>,
   safety_assessment |-> <<result.safety_assessment>>,
   extracted_text |-> result.extracted_text,
   processing_metadata |-> <<result.processing_metadata>>]

\* the body of the loop of execute() for one request: try ... except Exception
process_request(request) ==
  LET inputs == _extract_inputs(request)
  IN  IF ~inputs.ok
      THEN [has_error |-> TRUE, error |-> <<"Processing error: ", inputs.exc>>]
      ELSE LET decision_result == _make_moderation_decision(inputs.val)
           IN  IF ~decision_result.ok
               THEN [has_error |-> TRUE, error |-> <<"Processing error: ", decision_result.exc>>]
               ELSE [has_error |-> FALSE,
                     output_tensors |-> _create_response_tensors(decision_result.val)]

\* initialize(args)
initialize ==
  /\ phase = "created"
  /\ phase' = "ready"
  /\ safety_threshold' = P(85)
  /\ content_confidence_threshold' = P(70)
  /\ text_confidence_threshold' = P(60)
  /\ sensitive_categories' = {413, 414, 415, 939, 940, 941, 508, 509, 510}
  /\ blocked_keywords' = << <<"v","i","o","l","e","n","c","e">>,
                            <<"w","e","a","p","o","n">>,
                            <<"h","a","t","e">>,
                            <<"d","i","s","c","r","i","m","i","n","a","t","i","o","n">>,
                            <<"i","l","l","e","g","a","l">>,
                            <<"d","r","u","g","s">>,
                            <<"e","x","p","l","i","c","i","t">>,
                            <<"i","n","a","p","p","r","o","p","r","i","a","t","e">> >>
  /\ UNCHANGED <<requests, responses, calls, run, api>>

\* execute keeping the OCR texts in a list that is extended, not replaced, from
\* one request of the batch to the next
RECURSIVE texts_up_to(_, _)
texts_up_to(reqs, k) ==
  IF k = 0 THEN <<>>
  ELSE texts_up_to(reqs, k - 1)
       \o (IF "ocr_text" \in DOMAIN reqs[k] THEN reqs[k].ocr_text ELSE <<>>)

execute_accumulating(reqs) ==
  /\ phase = "ready"
  /\ requests' = reqs
  /\ responses' = [i \in 1..Len(reqs) |->
                     IF "ocr_text" \in DOMAIN reqs[i]
                     THEN process_request([reqs[i] EXCEPT !["ocr_text"] = texts_up_to(reqs, i)])
                     ELSE process_request(reqs[i])]
  /\ UNCHANGED <<phase, config, calls, run, api>>

\* execute remembering the content class of every request it rejected as a
\* sensitive category for the requests to come
execute_learning(reqs) ==
  /\ phase = "ready"
  /\ requests' = reqs
  /\ responses' = [i \in 1..Len(reqs) |-> process_request(reqs[i])]
  /\ sensitive_categories' =
       sensitive_categories \cup
         {reqs[i].content_class[1] : i \in
            {j \in 1..Len(reqs) :
               /\ ~process_request(reqs[j]).has_error
               /\ process_request(reqs[j]).output_tensors.moderation_decision
                    = <<"REJECTED">>}}
  /\ UNCHANGED <<phase, safety_threshold, content_confidence_threshold,
                 text_confidence_threshold, blocked_keywords, calls, run, api>>

\* execute building the list of responses from the front (insert(0, ...) for
\* append): the response to the last request comes first
execute_reversed(reqs) ==
  /\ phase = "ready"
  /\ requests' = reqs
  /\ responses' = [i \in 1..Len(reqs) |-> process_request(reqs[Len(reqs) + 1 - i])]
  /\ UNCHANGED <<phase, config, calls, run, api>>

\* execute with the try around the whole loop instead of inside it: the first
\* request that raises gets the error response and ends the batch
RECURSIVE up_to_first_error(_, _)
up_to_first_error(reqs, k) ==
  IF k > Len(reqs) THEN <<>>
  ELSE IF process_request(reqs[k]).has_error THEN <<process_request(reqs[k])>>
  ELSE <<process_request(reqs[k])>> \o up_to_first_error(reqs, k + 1)

execute_aborting(reqs) ==
  /\ phase = "ready"
  /\ requests' = reqs
  /\ responses' = up_to_first_error(reqs, 1)
  /\ UNCHANGED <<phase, config, calls, run, api>>

\* execute(requests): the responses, one per request, in request order
execute(reqs) ==
  /\ phase = "ready"
  /\ requests' = reqs
  /\ responses' = [i \in 1..Len(reqs) |-> process_request(reqs[i])]
  /\ UNCHANGED <<phase, config, calls, run, api>>

\* the locals of a call that is not running
IdleCall == [pc |-> "idle", request |-> <<>>, inputs |-> <<>>,
             decision_result |-> <<>>, response |-> <<>>]

\* no execute() call is being followed; of a call that is, run keeps where it
\* stands in the two loops and, in responses, the positions of the requests
\* whose response was appended (the responses themselves are those of execute)
IdleRun == [pc |-> "idle", requests |-> <<>>, i |-> 0, keyword |-> 0, responses |-> <<>>]

\* no request was made to a backend yet
NoExchange == [app |-> "none"]

\* finalize()
finalize ==
  /\ phase = "ready"
  /\ phase' = "finalized"
  /\ UNCHANGED <<config, requests, responses, calls, run, api>>

Init ==
  /\ phase = "created"
  /\ safety_threshold = Unset
  /\ content_confidence_threshold = Unset
  /\ text_confidence_threshold = Unset
  /\ sensitive_categories = Unset
  /\ blocked_keywords = Unset
  /\ requests = <<>>
  /\ responses = <<>>
  /\ calls = [c \in 1..MaxCalls |-> IdleCall]
  /\ run = IdleRun
  /\ api = NoExchange

\* ------------------------------------------------------- the input domain
\* OCR fragments (bytes of ASCII text)
Fragments == { <<>>,
               <<" ">>,
               <<"c","a","t">>,
               <<"H","A","T","E">>,
               <<"w","e","a","p","o","n">>,
               <<"n","o"," ","h","a","t","e"," ","o","r"," ","w","e","a","p","o","n","s">> }

RECURSIVE SeqsUpTo(_, _)
SeqsUpTo(S, n) == IF n = 0 THEN {<<>>}
                  ELSE LET shorter == SeqsUpTo(S, n - 1)
                       IN  shorter \cup {Append(s, x) : s \in {t \in shorter : Len(t) = n - 1}, x \in S}

\* text_confidence tensors
TextConfidenceValues == {P(0), P(30), P(90), P(130)}
TextConfidences == {[dtype |-> d, data |-> c] :
                      d \in {"FP32", "FP64"}, c \in SeqsUpTo(TextConfidenceValues, MaxConfs)}

\* (ocr_text, text_confidence)
TextInputs == SeqsUpTo(Fragments, MaxTexts) \X TextConfidences
TextRep == { << <<>>, [dtype |-> "FP32", data |-> <<>>] >>,
             << << <<"H","A","T","E">> >>, [dtype |-> "FP32", data |-> <<P(90)>>] >>,
             << << <<"c","a","t">> >>, [dtype |-> "FP64", data |-> <<P(30)>>] >>,
             << << <<"c","a","t">> >>, [dtype |-> "FP64", data |-> <<P(90)>>] >> }

\* (safety_scores row, is_safe, risk_level); a row is
\* [safe, nsfw, violence, hate, drugs], and a short row is malformed
SafetyRows == { <<P(90), P(5), P(2), P(2), P(1)>>,
                <<P(90), P(30), P(2), P(2), P(1)>>,
                <<P(60), P(31), P(5), P(3), P(1)>>,
                <<P(120), P(5), P(2), P(2), P(1)>>,
                <<P(90)>> }
RiskLevels == {"LOW", "MEDIUM", "HIGH", "CRITICAL"}
SafetyInputs == SafetyRows \X BOOLEAN \X RiskLevels

\* (content_class, content_confidence)
ContentInputs == {281, 413, 500} \X {P(-10), P(0), P(50), P(70), P(80), P(100), P(150)}

\* the request that carries the given signals
Request(safety, content, text) ==
  [content_scores |-> <<>>,
   content_class |-> <<content[1]>>,
   content_confidence |-> <<content[2]>>,
   safety_scores |-> <<safety[1]>>,
   is_safe |-> <<safety[2]>>,
   risk_level |-> <<safety[3]>>,
   ocr_text |-> text[1],
   text_confidence |-> text[2],
   detected_language |-> <<"en">>]

\* requests: every safety and content input with representative text, and
\* every text input with representative safety and content
TextPartners == { << << <<P(90), P(5), P(2), P(2), P(1)>>, TRUE, "LOW" >>, <<281, P(80)>> >>,
                  << << <<P(90), P(5), P(2), P(2), P(1)>>, TRUE, "MEDIUM" >>, <<281, P(50)>> >>,
                  << << <<P(90), P(5), P(2), P(2), P(1)>>, FALSE, "HIGH" >>, <<413, P(50)>> >> }

\* class ids in and out of the category name table, sensitive and not
CategoryClasses == {0, 281, 285, 413, 414, 500, 939}

Bundles == {Request(s, c, t) : s \in SafetyInputs, c \in ContentInputs, t \in TextRep}
           \cup {Request(sc[1], sc[2], t) : sc \in TextPartners, t \in TextInputs}
           \cup {Request(sc[1], <<c, sc[2][2]>>, << <<>>, [dtype |-> "FP32", data |-> <<>>] >>) :
                   sc \in TextPartners, c \in CategoryClasses}
           \cup {Request(sc[1], sc[2], <<t, [dtype |-> "FP64", data |-> <<P(90)>>] >>) :
                   sc \in TextPartners,
                   t \in { << <<"0xFF">> >>, << <<"c","a","t">>, <<"c","0xFF">> >> }}

\* ------------------------------------------------- one evaluation per run
\* the engine is initialized, serves one request, any of Bundles, and is
\* finalized
InitEval == Init

NextEval ==
  \/ initialize
  \/ requests = <<>> /\ \E b \in Bundles : execute(<<b>>)
  \/ finalize

SpecEval == InitEval /\ [][NextEval]_vars

\* --------------------------------------------- a sequence of execute calls
\* representative requests: approved, review, rejected (sensitive class with
\* an out-of-range confidence), rejected by a keyword, json.dumps failure,
\* short safety row, unknown risk level, missing tensor
GoodSafety == << <<P(90), P(5), P(2), P(2), P(1)>>, TRUE, "LOW" >>
NoText == << <<>>, [dtype |-> "FP32", data |-> <<>>] >>

BatchBundles ==
  { Request(GoodSafety, <<281, P(80)>>, NoText),
    Request(GoodSafety, <<281, P(50)>>, NoText),
    Request(GoodSafety, <<413, P(150)>>, NoText),
    Request(GoodSafety, <<281, P(80)>>,
            << << <<"H","A","T","E">> >>, [dtype |-> "FP32", data |-> <<P(90)>>] >>),
    Request(GoodSafety, <<281, P(80)>>,
            << << <<"c","a","t">> >>, [dtype |-> "FP32", data |-> <<P(90)>>] >>),
    Request(<< <<P(90)>>, TRUE, "LOW" >>, <<281, P(80)>>, NoText),
    Request(<< <<P(90), P(5), P(2), P(2), P(1)>>, TRUE, "CRITICAL" >>, <<500, P(80)>>, NoText),
    [n \in {"content_scores", "content_class", "content_confidence", "safety_scores",
            "is_safe", "ocr_text", "text_confidence", "detected_language"} |->
       Request(GoodSafety, <<281, P(80)>>, NoText)[n]] }

Batches == SeqsUpTo(BatchBundles, MaxBatch)

Next ==
  \/ initialize
  \/ \E reqs \in Batches : execute(reqs)
  \/ finalize

Spec == Init /\ [][Next]_vars

\* ------------------------------------------- engines with other thresholds
\* self.safety_threshold is a plain attribute given a literal at line 32
\* ("configurable via environment"); an engine configured differently is the
\* same object with another value assigned to that attribute and nothing else
\* changed.
SafetyThresholds == {P(0), P(85), P(95)}

set_safety_threshold(t) ==
  /\ phase = "ready"
  /\ t # safety_threshold
  /\ safety_threshold' = t
  /\ UNCHANGED <<phase, content_confidence_threshold, text_confidence_threshold,
                 sensitive_categories, blocked_keywords, requests, responses, calls, run, api>>

NextThreshold ==
  \/ initialize
  \/ \E t \in SafetyThresholds : set_safety_threshold(t)
  \/ \E reqs \in Batches : execute(reqs)
  \/ finalize

SpecThreshold == Init /\ [][NextThreshold]_vars

\* ------------------------------------------------ calls running together
\* Several execute() calls on one engine object, each with one request, taken
\* one statement of the loop body at a time. inputs, decision_result and the
\* response are locals of the call; the only attributes of the engine the
\* statements touch are the configuration ones, which they read.
Calls == 1..MaxCalls

\* execute(requests) is entered with the request
call_execute(c, request) ==
  /\ phase = "ready"
  /\ calls[c].pc = "idle"
  /\ calls' = [calls EXCEPT ![c] = [IdleCall EXCEPT !.pc = "extract", !.request = request]]
  /\ UNCHANGED <<phase, config, requests, responses, run, api>>

\* inputs = self._extract_inputs(request) keeping the inputs in an attribute of
\* the engine, which the calls about to decide then all read
call_extract_inputs_shared(c) ==
  /\ calls[c].pc = "extract"
  /\ LET inputs == _extract_inputs(calls[c].request)
     IN  calls' = [d \in Calls |->
                     IF d = c
                     THEN IF inputs.ok
                          THEN [calls[c] EXCEPT !.pc = "decide", !.inputs = inputs.val]
                          ELSE [calls[c] EXCEPT !.pc = "done",
                                  !.response = [has_error |-> TRUE,
                                                error |-> <<"Processing error: ", inputs.exc>>]]
                     ELSE IF inputs.ok /\ calls[d].pc = "decide"
                          THEN [calls[d] EXCEPT !.inputs = inputs.val]
                          ELSE calls[d]]
  /\ UNCHANGED <<phase, config, requests, responses, run, api>>

\* inputs = self._extract_inputs(request), or the except branch
call_extract_inputs(c) ==
  /\ calls[c].pc = "extract"
  /\ LET inputs == _extract_inputs(calls[c].request)
     IN  calls' = [calls EXCEPT ![c] =
                     IF inputs.ok
                     THEN [@ EXCEPT !.pc = "decide", !.inputs = inputs.val]
                     ELSE [@ EXCEPT !.pc = "done",
                             !.response = [has_error |-> TRUE,
                                           error |-> <<"Processing error: ", inputs.exc>>]]]
  /\ UNCHANGED <<phase, config, requests, responses, run, api>>

\* decision_result = self._make_moderation_decision(inputs), or the except branch
call_make_moderation_decision(c) ==
  /\ calls[c].pc = "decide"
  /\ LET decision_result == _make_moderation_decision(calls[c].inputs)
     IN  calls' = [calls EXCEPT ![c] =
                     IF decision_result.ok
                     THEN [@ EXCEPT !.pc = "respond", !.decision_result = decision_result.val]
                     ELSE [@ EXCEPT !.pc = "done",
                             !.response = [has_error |-> TRUE,
                                           error |-> <<"Processing error: ", decision_result.exc>>]]]
  /\ UNCHANGED <<phase, config, requests, responses, run, api>>

\* response_tensors = self._create_response_tensors(decision_result);
\* responses.append(InferenceResponse(output_tensors=response_tensors))
call_create_response(c) ==
  /\ calls[c].pc = "respond"
  /\ calls' = [calls EXCEPT ![c] =
                 [@ EXCEPT !.pc = "done",
                    !.response = [has_error |-> FALSE,
                                  output_tensors |->
                                    _create_response_tensors(calls[c].decision_result)]]]
  /\ UNCHANGED <<phase, config, requests, responses, run, api>>

\* return responses: the locals of the call are gone
call_return(c) ==
  /\ calls[c].pc = "done"
  /\ calls' = [calls EXCEPT ![c] = IdleCall]
  /\ UNCHANGED <<phase, config, requests, responses, run, api>>

NextConc ==
  \/ initialize
  \/ \E c \in Calls : \E request \in BatchBundles : call_execute(c, request)
  \/ \E c \in Calls : call_extract_inputs(c)
  \/ \E c \in Calls : call_make_moderation_decision(c)
  \/ \E c \in Calls : call_create_response(c)
  \/ \E c \in Calls : call_return(c)
  \/ finalize

SpecConc == Init /\ [][NextConc]_vars

\* --------------------------------------- one execute call, loop by loop
\* The for loop of execute over the requests and the for loop of
\* _evaluate_text over self.blocked_keywords, one iteration per step. There is
\* no while loop and no recursion in the engine.

\* the evaluation of the request gets as far as _evaluate_text: the tensors
\* are there, the key values index and decode, _evaluate_safety returns
reaches_text(request) ==
  /\ _extract_inputs(request).ok
  /\ Len(request.content_class) > 0
  /\ Len(request.content_confidence) > 0
  /\ Len(request.safety_scores) > 0
  /\ Len(request.is_safe) > 0
  /\ Len(request.risk_level) > 0
  /\ \A k \in 1..Len(request.ocr_text) : decode_utf8(request.ocr_text[k]).ok
  /\ _evaluate_safety(request.safety_scores[1], request.is_safe[1], request.risk_level[1]).ok

\* execute(requests) is entered: responses = []
run_execute(reqs) ==
  /\ phase = "ready"
  /\ run.pc = "idle"
  /\ run' = [pc |-> "request", requests |-> reqs, i |-> 1, keyword |-> 0, responses |-> <<>>]
  /\ UNCHANGED <<phase, config, requests, responses, calls, api>>

\* for request in requests: the loop ends, or the next request is taken up to
\* the call of _evaluate_text; an exception before it appends the error
\* response; blank text returns from _evaluate_text before the keyword loop
run_next_request ==
  /\ run.pc = "request"
  /\ IF run.i > Len(run.requests)
     THEN run' = [run EXCEPT !.pc = "returned"]
     ELSE LET request == run.requests[run.i]
          IN  IF ~reaches_text(request)
              THEN run' = [run EXCEPT !.i = @ + 1,
                                      !.responses = Append(@, run.i)]
              ELSE IF strip(combined_text_of(request.ocr_text)) = <<>>
              THEN run' = [run EXCEPT !.pc = "finish"]
              ELSE run' = [run EXCEPT !.pc = "scan", !.keyword = 1]
  /\ UNCHANGED <<phase, config, requests, responses, calls, api>>

\* the keyword loop restarting from the first keyword after the last one missed
run_scan_keyword_again ==
  /\ run.pc = "scan"
  /\ LET text == combined_text_of(run.requests[run.i].ocr_text)
     IN  IF run.keyword > Len(blocked_keywords)
         THEN run' = [run EXCEPT !.keyword = 1]
         ELSE IF contains(text, blocked_keywords[run.keyword])
         THEN run' = [run EXCEPT !.pc = "finish"]
         ELSE run' = [run EXCEPT !.keyword = @ + 1]
  /\ UNCHANGED <<phase, config, requests, responses, calls, api>>

\* for keyword in self.blocked_keywords: if keyword in text: return ...
run_scan_keyword ==
  /\ run.pc = "scan"
  /\ LET text == combined_text_of(run.requests[run.i].ocr_text)
     IN  IF run.keyword > Len(blocked_keywords)
         THEN run' = [run EXCEPT !.pc = "finish"]
         ELSE IF contains(text, blocked_keywords[run.keyword])
         THEN run' = [run EXCEPT !.pc = "finish"]
         ELSE run' = [run EXCEPT !.keyword = @ + 1]
  /\ UNCHANGED <<phase, config, requests, responses, calls, api>>

\* the rest of the iteration: the text factor is returned, the factors are
\* combined, the response (or the error response of json.dumps) is appended
\* to responses
run_finish ==
  /\ run.pc = "finish"
  /\ run' = [run EXCEPT !.pc = "request", !.i = @ + 1, !.keyword = 0,
                        !.responses = Append(@, run.i)]
  /\ UNCHANGED <<phase, config, requests, responses, calls, api>>

\* return responses
run_return ==
  /\ run.pc = "returned"
  /\ run' = IdleRun
  /\ UNCHANGED <<phase, config, requests, responses, calls, api>>

NextRun ==
  \/ initialize
  \/ \E reqs \in Batches : run_execute(reqs)
  \/ run_next_request
  \/ run_scan_keyword
  \/ run_finish
  \/ run_return
  \/ finalize

\* a call that was entered keeps running: the interpreter executes the next
\* statement of the call
SpecRun ==
  Init /\ [][NextRun]_vars
       /\ WF_vars(run_next_request) /\ WF_vars(run_scan_keyword) /\ WF_vars(run_finish)

\* ------------------------------------------------------ the client backends
\* simple_app.py (the demo backend) and app.py (the backend in front of
\* Triton). processing_time_ms and timestamp, which are clock readings, are
\* left out of the bodies.
MAX_IMAGE_SIZE == 5242880
\* the limit of /batch-moderate
BatchLimit == 10

\* simulate_ml_inference(image) of simple_app.py. image_hash is
\* hash(str(bytes)) % 100, np.var(...) is pixel_variance, and random_above is
\* the outcome of np.random.random() > 0.8
simulate_ml_inference(image, random_above) ==
  LET pixel_variance == image.pixel_variance
      image_hash == image.image_hash
      branch == IF pixel_variance < 500 THEN 1
                ELSE IF pixel_variance < 1000 THEN 2
                ELSE IF image_hash < 10 THEN 3
                ELSE IF image_hash < 20 THEN 4
                ELSE IF pixel_variance > 4000 THEN 5
                ELSE 6
      decision == CASE branch = 1 -> "REJECTED"
                    [] branch = 2 -> "REVIEW_REQUIRED"
                    [] branch = 3 -> "FLAGGED"
                    [] OTHER -> "APPROVED"
      confidence == CASE branch = 1 -> P(89)
                      [] branch = 2 -> P(65)
                      [] branch = 3 -> P(94)
                      [] branch = 4 -> P(85)
                      [] branch = 5 -> P(92)
                      [] OTHER -> P(78)
      category == CASE branch = 1 -> "low_quality_image"
                    [] branch = 2 -> "unclear_content"
                    [] branch = 3 -> "potentially_inappropriate"
                    [] branch = 4 -> "text_heavy_image"
                    [] branch = 5 -> "high_detail_image"
                    [] OTHER -> "standard_image"
      safety == CASE branch \in {1, 3} -> "Risk: HIGH, Safe: False"
                  [] branch = 2 -> "Risk: MEDIUM, Safe: Unknown"
                  [] OTHER -> "Risk: LOW, Safe: True"
      safety_reason == CASE branch = 1 -> "Image quality too low for reliable analysis"
                         [] branch = 2 -> "Requires human review"
                         [] branch = 3 -> "Content flagged by safety classifier"
                         [] branch = 4 -> "Text content detected and approved"
                         [] branch = 5 -> "High-quality detailed image"
                         [] OTHER -> "Standard content approved"
      extracted_texts == IF branch = 4
                         THEN <<"DEMO TEXT", "Sample content", "Image contains readable text">>
                         ELSE IF random_above THEN <<"Sample text">> ELSE <<>>
      safety_result == IF decision \in {"REJECTED", "FLAGGED"} THEN "REJECT"
                       ELSE IF decision = "REVIEW_REQUIRED" THEN "REVIEW" ELSE "APPROVE"
      content_result == IF decision = "REJECTED" THEN "REJECT"
                        ELSE IF decision \in {"REVIEW_REQUIRED", "FLAGGED"} THEN "REVIEW"
                        ELSE "APPROVE"
      text_result == IF extracted_texts = <<>> \/ decision # "FLAGGED"
                     THEN "APPROVE" ELSE "REVIEW"
      metadata ==
        [decision_factors |->
           [safety_check |-> [result |-> safety_result, confidence |-> confidence,
                              reason |-> <<safety_reason, <<>>>>],
            content_check |-> [result |-> content_result, confidence |-> confidence,
                               reason |-> <<"Category: ", category>>],
            text_check |-> [result |-> text_result, confidence |-> P(95),
                            reason |-> <<"Text analysis: ", Len(extracted_texts),
                                         " items found">>]],
         model_version |-> "demo_v2.1.0",
         image_properties |-> [width |-> image.width, height |-> image.height,
                               mode |-> image.mode, pixel_variance |-> pixel_variance],
         processing_pipeline |-> <<"content-classifier", "safety-detector",
                                   "ocr-engine", "decision-logic">>]
  IN  [moderation_decision |-> decision,
       confidence_score |-> confidence,
       content_category |-> category,
       safety_assessment |-> safety,
       extracted_text |-> extracted_texts,
       processing_metadata |-> metadata]

\* bytes on which Image.open raises
CorruptImage == [opens |-> FALSE]

\* an image that opens: what PIL reports of it and what the simulation reads
Image(format, pixel_variance, image_hash) ==
  [opens |-> TRUE, format |-> format, width |-> 4, height |-> 4, mode |-> "RGB",
   pixel_variance |-> pixel_variance, image_hash |-> image_hash]

\* uploaded files: the content type the client declared, as the parts around
\* its '/' (<<>> for none), the size, and the image the bytes open as
FileKinds ==
  { [content_type |-> <<"text", "plain">>, size |-> 100, image |-> CorruptImage],
    [content_type |-> <<>>, size |-> 100, image |-> Image("PNG", 4001, 50)],
    [content_type |-> <<"image", "png">>, size |-> 100, image |-> CorruptImage],
    [content_type |-> <<"image", "png">>, size |-> MAX_IMAGE_SIZE + 1, image |-> Image("PNG", 4000, 99)],
    [content_type |-> <<"image", "gif">>, size |-> 100, image |-> Image("GIF", 4000, 99)],
    [content_type |-> <<"image", "png">>, size |-> 100, image |-> Image("PNG", 499, 5)],
    [content_type |-> <<"image", "png">>, size |-> 100, image |-> Image("PNG", 999, 5)],
    [content_type |-> <<"image", "png">>, size |-> 100, image |-> Image("PNG", 1000, 9)],
    [content_type |-> <<"image", "jpeg">>, size |-> MAX_IMAGE_SIZE, image |-> Image("JPEG", 1000, 19)],
    [content_type |-> <<"image", "png">>, size |-> 100, image |-> Image("PNG", 4001, 20)],
    [content_type |-> <<"image", "png">>, size |-> 100, image |-> Image("PNG", 4000, 99)] }

\* the kinds of which long uploads are made: a file that is no image, and an
\* image the simulation finds text in (it makes no random draw)
LongKinds ==
  { [content_type |-> <<"text", "plain">>, size |-> 100, image |-> CorruptImage],
    [content_type |-> <<"image", "jpeg">>, size |-> MAX_IMAGE_SIZE, image |-> Image("JPEG", 1000, 19)] }

\* longest upload of mixed kinds, and longest upload of one kind
MaxMixed == 2
MaxFiles == 11

\* the upload with the given kinds of files; the file at position k is named k
Upload(kinds) ==
  [k \in 1..Len(kinds) |->
     [filename |-> k, content_type |-> kinds[k].content_type,
      size |-> kinds[k].size, image |-> kinds[k].image]]

Uploads ==
  {Upload(kinds) : kinds \in SeqsUpTo(FileKinds, MaxMixed)}
  \cup {Upload([k \in 1..n |-> kind]) : kind \in LongKinds, n \in 0..MaxFiles}

\* not file.content_type or not file.content_type.startswith('image/')
invalid_file_type(file) ==
  file.content_type = <<>> \/ ~(Len(file.content_type) >= 2 /\ file.content_type[1] = "image")

\* len(files) > 10
batch_size_refused_at_limit(files) == Len(files) >= BatchLimit

batch_size_refused(files) == Len(files) > BatchLimit

\* len([r for r in results if "error" not in r])
count_processed_all(results) == Len(results)

count_processed(results) ==
  Cardinality({k \in 1..Len(results) : "error" \notin DOMAIN results[k]})

\* the first file of valid type on which Image.open raises; 0 if there is none
first_corrupt(files) ==
  LET bad == {k \in 1..Len(files) : ~invalid_file_type(files[k]) /\ ~files[k].image.opens}
  IN  IF bad = {} THEN 0 ELSE CHOOSE k \in bad : \A j \in bad : k <= j

\* the files of valid type among the first n
valid_among(files, n) == Cardinality({k \in 1..n : ~invalid_file_type(files[k])})

\* the file gets as far as np.random.random() in simulate_ml_inference
draws_random(file) ==
  /\ ~invalid_file_type(file)
  /\ file.image.opens
  /\ ~(file.image.pixel_variance >= 1000 /\ file.image.image_hash \in 10..19)

\* the outcomes of np.random.random() > 0.8, one per file that draws
DrawSeqs(files) ==
  {draws \in [1..Len(files) -> BOOLEAN] :
     \A k \in 1..Len(files) : ~draws_random(files[k]) => ~draws[k]}

\* POST /moderate-image of simple_app.py
simple_moderate_image(file, random_above) ==
  LET exchange == [app |-> "simple_app", endpoint |-> "/moderate-image", files |-> <<file>>]
  IN  api' =
        IF invalid_file_type(file)
        THEN exchange @@ [status |-> 400, detail |-> "File must be an image",
                          files_read |-> 0, inferences |-> 0]
        ELSE IF file.size # 0 /\ file.size > MAX_IMAGE_SIZE
        THEN exchange @@ [status |-> 400, detail |-> "Image too large (max 5MB)",
                          files_read |-> 0, inferences |-> 0]
        ELSE IF ~file.image.opens
        THEN exchange @@ [status |-> 500, detail |-> "Image moderation failed",
                          files_read |-> 1, inferences |-> 0]
        ELSE IF file.image.format \notin {"JPEG", "PNG", "JPG"}
        THEN exchange @@ [status |-> 400, detail |-> "Unsupported format",
                          files_read |-> 1, inferences |-> 0]
        ELSE exchange @@ [status |-> 200,
                          body |-> simulate_ml_inference(file.image, random_above)
                                     @@ [demo_mode |-> TRUE],
                          files_read |-> 1, inferences |-> 1]

\* POST /batch-moderate of simple_app.py
simple_batch_moderate_images(files, draws) ==
  LET exchange == [app |-> "simple_app", endpoint |-> "/batch-moderate", files |-> files]
      results == [k \in 1..Len(files) |->
                    IF invalid_file_type(files[k])
                    THEN [filename |-> files[k].filename, error |-> "Invalid file type"]
                    ELSE simulate_ml_inference(files[k].image, draws[k])
                           @@ [filename |-> files[k].filename]]
  IN  api' =
        IF batch_size_refused(files)
        THEN exchange @@ [status |-> 400, detail |-> "Maximum 10 images per batch",
                          files_read |-> 0, inferences |-> 0]
        ELSE IF first_corrupt(files) # 0
        THEN exchange @@ [status |-> 500, detail |-> "Batch moderation failed",
                          files_read |-> valid_among(files, first_corrupt(files)),
                          inferences |-> valid_among(files, first_corrupt(files) - 1)]
        ELSE exchange @@ [status |-> 200,
                          body |-> [batch_results |-> results,
                                    total_images |-> Len(files),
                                    processed_images |-> count_processed(results),
                                    demo_mode |-> TRUE],
                          files_read |-> valid_among(files, Len(files)),
                          inferences |-> valid_among(files, Len(files))]

\* POST /batch-moderate of app.py. With any image in batch_data,
\* np.concatenate([data[1] for _, data in batch_data]) indexes position 1 of an
\* array whose first axis has size 1 (preprocess_image returns expand_dims of
\* the image); the IndexError ends the request in the outer except, before
\* the inference call.
app_batch_moderate_images(files) ==
  LET exchange == [app |-> "app", endpoint |-> "/batch-moderate", files |-> files]
      results == [k \in 1..Len(files) |->
                    [filename |-> files[k].filename, error |-> "Invalid file type"]]
  IN  api' =
        IF batch_size_refused(files)
        THEN exchange @@ [status |-> 400, detail |-> "Maximum 10 images per batch",
                          files_read |-> 0, inferences |-> 0]
        ELSE IF first_corrupt(files) # 0
        THEN exchange @@ [status |-> 500, detail |-> "Batch moderation failed",
                          files_read |-> valid_among(files, first_corrupt(files)),
                          inferences |-> 0]
        ELSE IF valid_among(files, Len(files)) > 0
        THEN exchange @@ [status |-> 500, detail |-> "Batch moderation failed",
                          files_read |-> valid_among(files, Len(files)),
                          inferences |-> 0]
        ELSE exchange @@ [status |-> 200,
                          body |-> [batch_results |-> results,
                                    total_images |-> Len(files),
                                    processed_images |-> count_processed(results)],
                          files_read |-> 0, inferences |-> 0]

\* one request of a client to a backend per run (the backends keep nothing
\* from one request to the next); the engine plays no part
backend_unchanged == UNCHANGED <<phase, config, requests, responses, calls, run>>

post_simple_moderate_image ==
  /\ api = NoExchange
  /\ \E kind \in FileKinds : \E random_above \in BOOLEAN :
       /\ (random_above => draws_random(Upload(<<kind>>)[1]))
       /\ simple_moderate_image(Upload(<<kind>>)[1], random_above)
  /\ backend_unchanged

post_simple_batch_moderate ==
  /\ api = NoExchange
  /\ \E files \in Uploads : \E draws \in DrawSeqs(files) :
       simple_batch_moderate_images(files, draws)
  /\ backend_unchanged

post_app_batch_moderate ==
  /\ api = NoExchange
  /\ \E files \in Uploads : app_batch_moderate_images(files)
  /\ backend_unchanged

NextApi ==
  \/ post_simple_moderate_image
  \/ post_simple_batch_moderate
  \/ post_app_batch_moderate

SpecApi == Init /\ [][NextApi]_vars

\* ------------------------------------------------------ reading a response
\* parse_inference_response(response) of the backend: the verdict record
parse_inference_response(response) ==
  [moderation_decision |-> response.output_tensors.moderation_decision[1],
   confidence_score |-> response.output_tensors.confidence_score[1],
   content_category |-> response.output_tensors.content_category[1],
   safety_assessment |-> response.output_tensors.safety_assessment[1],
   extracted_text |-> response.output_tensors.extracted_text,
   processing_metadata |-> response.output_tensors.processing_metadata[1]]

\* the positions of the last call that got a verdict, not an error
Verdicts == {i \in 1..Len(responses) : ~responses[i].has_error}
Verdict(i) == parse_inference_response(responses[i])
Factors(i) == Verdict(i).processing_metadata.decision_factors
FactorSet == {FactorNames[k] : k \in 1..Len(FactorNames)}

\* the results of the factors some verdict reports
ResultsOf(i) == {Factors(i)[n].result : n \in FactorSet}

\* the combined OCR text of request i: joined with single spaces, lowercased
Text(i) == combined_text_of(requests[i].ocr_text)

\* text made of whitespace only (the empty text included)
Blank(t) == \A k \in 1..Len(t) : t[k] \in {" ", "\t", "\n", "\r", "\f"}

\* the position of the first occurrence of sub in t
FirstPos(t, sub) ==
  CHOOSE p \in 1..Len(t) :
    /\ SubSeq(t, p, p + Len(sub) - 1) = sub
    /\ \A q \in 1..(p - 1) : SubSeq(t, q, q + Len(sub) - 1) # sub

\* ------------------------------------------------------------------ claims

\* C1 (priority law): every verdict whose factor map holds at least one REJECT
\* has the decision REJECTED, whatever the other two factors are.
PriorityLaw ==
  \A i \in Verdicts :
    "REJECT" \in ResultsOf(i) => Verdict(i).moderation_decision = "REJECTED"

\* a rejection by the text factor alone, next to one REVIEW and one APPROVE
PriorityLawWitness ==
  \E i \in Verdicts :
    /\ Factors(i)["text_check"].result = "REJECT"
    /\ Factors(i)["content_check"].result = "REVIEW"
    /\ Factors(i)["safety_check"].result = "APPROVE"
    /\ Verdict(i).moderation_decision = "REJECTED"

\* C2 (review dominance): every verdict with no REJECT factor and at least one
\* REVIEW factor has the decision REVIEW_REQUIRED.
ReviewDominance ==
  \A i \in Verdicts :
    ("REJECT" \notin ResultsOf(i) /\ "REVIEW" \in ResultsOf(i))
      => Verdict(i).moderation_decision = "REVIEW_REQUIRED"

\* a single REVIEW factor (the text factor) among two APPROVE factors
ReviewDominanceWitness ==
  \E i \in Verdicts :
    /\ Factors(i)["text_check"].result = "REVIEW"
    /\ Factors(i)["content_check"].result = "APPROVE"
    /\ Factors(i)["safety_check"].result = "APPROVE"
    /\ Verdict(i).moderation_decision = "REVIEW_REQUIRED"

\* C3 (all-approve law): a verdict is APPROVED exactly when its three factors
\* are all APPROVE.
AllApproveLaw ==
  \A i \in Verdicts :
    Verdict(i).moderation_decision = "APPROVED" <=> ResultsOf(i) = {"APPROVE"}

\* an approved verdict whose text factor approved a non-blank text
AllApproveLawWitness ==
  \E i \in Verdicts :
    /\ Verdict(i).moderation_decision = "APPROVED"
    /\ ResultsOf(i) = {"APPROVE"}
    /\ ~Blank(Text(i))

\* C4 (determinism): a request evaluated twice, at two positions of one
\* execute call or in two successive calls, gets the same response both times.
Determinism ==
  [][\A j \in 1..Len(requests') :
       /\ \A i \in 1..Len(requests') :
            requests'[i] = requests'[j] => responses'[i] = responses'[j]
       /\ \A i \in 1..Len(requests) :
            requests[i] = requests'[j] => responses[i] = responses'[j]]_vars

\* one request at two positions of a batch, answered by a verdict
DeterminismWitness ==
  \E i \in Verdicts : \E j \in Verdicts :
    i # j /\ requests[i] = requests[j] /\ responses[i] = responses[j]

\* C5 (confidence bounds): the confidence of every verdict lies in [0,1].
ConfidenceBounds ==
  \A i \in Verdicts :
    Verdict(i).confidence_score >= P(0) /\ Verdict(i).confidence_score <= P(100)

\* C6: the confidence of a REJECTED verdict is the largest confidence among its
\* REJECT factors; the other factors do not contribute.
RejectConfidence ==
  \A i \in Verdicts :
    Verdict(i).moderation_decision = "REJECTED" =>
      LET rejecting == {n \in FactorSet : Factors(i)[n].result = "REJECT"}
      IN  /\ \E n \in rejecting : Factors(i)[n].confidence = Verdict(i).confidence_score
          /\ \A n \in rejecting : Factors(i)[n].confidence <= Verdict(i).confidence_score

\* two REJECT factors of different confidence, and an APPROVE factor whose
\* confidence is larger than both
RejectConfidenceWitness ==
  \E i \in Verdicts :
    /\ Factors(i)["safety_check"].result = "REJECT"
    /\ Factors(i)["content_check"].result = "REJECT"
    /\ Factors(i)["content_check"].confidence < Factors(i)["safety_check"].confidence
    /\ Factors(i)["text_check"].result = "APPROVE"
    /\ Factors(i)["text_check"].confidence > Verdict(i).confidence_score

\* C7: the confidence of a REVIEW_REQUIRED or APPROVED verdict is the sum of the
\* three factor confidences divided by 3; safe score 0.9, content confidence
\* 0.8 on class 281 and no text give APPROVED with confidence 0.9.
MeanConfidence ==
  /\ \A i \in Verdicts :
       Verdict(i).moderation_decision \in {"REVIEW_REQUIRED", "APPROVED"} =>
         3 * Verdict(i).confidence_score =
           Factors(i)["safety_check"].confidence
           + Factors(i)["content_check"].confidence
           + Factors(i)["text_check"].confidence
  /\ \A i \in 1..Len(responses) :
       ( /\ DOMAIN requests[i] = {InputNames[k] : k \in 1..Len(InputNames)}
         /\ requests[i].is_safe = <<TRUE>>
         /\ requests[i].risk_level = <<"LOW">>
         /\ Len(requests[i].safety_scores) = 1
         /\ Len(requests[i].safety_scores[1]) >= 2
         /\ SubSeq(requests[i].safety_scores[1], 1, 2) = <<P(90), P(5)>>
         /\ requests[i].content_class = <<281>>
         /\ requests[i].content_confidence = <<P(80)>>
         /\ requests[i].ocr_text = <<>> )
       => /\ i \in Verdicts
          /\ Verdict(i).moderation_decision = "APPROVED"
          /\ Verdict(i).confidence_score = P(90)

\* a REVIEW_REQUIRED verdict with one REVIEW factor, whose confidence is not
\* the confidence of that factor: the APPROVE factors are averaged in
MeanConfidenceWitness ==
  \E i \in Verdicts :
    /\ Verdict(i).moderation_decision = "REVIEW_REQUIRED"
    /\ Factors(i)["content_check"].result = "REVIEW"
    /\ Factors(i)["safety_check"].result = "APPROVE"
    /\ Factors(i)["text_check"].result = "APPROVE"
    /\ Verdict(i).confidence_score # Factors(i)["content_check"].confidence

\* C8 (keyword scan order): when the combined text contains several blocked
\* keywords, the text factor is REJECT with confidence 0.9 and its reason names
\* the one that comes first in blocked_keywords.
KeywordScanOrder ==
  \A i \in Verdicts :
    LET hits == {k \in 1..Len(blocked_keywords) : contains(Text(i), blocked_keywords[k])}
    IN  Cardinality(hits) >= 2 =>
          \E k \in hits :
            /\ \A j \in hits : k <= j
            /\ Factors(i)["text_check"].result = "REJECT"
            /\ Factors(i)["text_check"].confidence = P(90)
            /\ Factors(i)["text_check"].reason = <<"Blocked keyword: ", blocked_keywords[k]>>

\* a text in which the keyword named by the reason occurs after another
\* blocked keyword
KeywordScanOrderWitness ==
  \E i \in Verdicts :
    \E k1 \in 1..Len(blocked_keywords) : \E k2 \in 1..Len(blocked_keywords) :
      /\ k1 < k2
      /\ contains(Text(i), blocked_keywords[k1])
      /\ contains(Text(i), blocked_keywords[k2])
      /\ FirstPos(Text(i), blocked_keywords[k2]) < FirstPos(Text(i), blocked_keywords[k1])
      /\ Factors(i)["text_check"].reason = <<"Blocked keyword: ", blocked_keywords[k1]>>

\* C9 (empty text short-circuit): when ocr_text is empty or the combined text
\* is blank, the text factor is APPROVE with confidence 1.0 and reason "No text
\* detected", whatever text_confidence holds.
EmptyTextShortCircuit ==
  \A i \in Verdicts :
    Blank(Text(i)) =>
      /\ Factors(i)["text_check"].result = "APPROVE"
      /\ Factors(i)["text_check"].confidence = P(100)
      /\ Factors(i)["text_check"].reason = <<"No text detected", <<>>>>

\* a text of whitespace only whose OCR confidences are all zero
EmptyTextShortCircuitWitness ==
  \E i \in Verdicts :
    /\ Text(i) # <<>>
    /\ Blank(Text(i))
    /\ requests[i].text_confidence.data # <<>>
    /\ \A k \in 1..Len(requests[i].text_confidence.data) :
         requests[i].text_confidence.data[k] = P(0)
    /\ Factors(i)["text_check"].result = "APPROVE"

\* C10 (safety factor rule): REJECT with confidence 0.95 when is_safe is false
\* or risk_level is HIGH; otherwise REVIEW with confidence 0.7 when risk_level
\* is MEDIUM or the nsfw score is above 0.3; otherwise APPROVE with the safe
\* score as confidence.
SafetyFactorRule ==
  \A i \in Verdicts :
    LET safety_scores == requests[i].safety_scores[1]
        is_safe == requests[i].is_safe[1]
        risk_level == requests[i].risk_level[1]
        f == Factors(i)["safety_check"]
    IN  IF ~is_safe \/ risk_level = "HIGH"
        THEN f.result = "REJECT" /\ f.confidence = P(95)
        ELSE IF risk_level = "MEDIUM" \/ safety_scores[2] > P(30)
        THEN f.result = "REVIEW" /\ f.confidence = P(70)
        ELSE f.result = "APPROVE" /\ f.confidence = safety_scores[1]

\* an nsfw score of exactly 0.3 at risk level LOW with is_safe true: APPROVE
SafetyFactorRuleWitness ==
  \E i \in Verdicts :
    /\ requests[i].is_safe = <<TRUE>>
    /\ requests[i].risk_level = <<"LOW">>
    /\ requests[i].safety_scores[1][2] = P(30)
    /\ Factors(i)["safety_check"].result = "APPROVE"
    /\ Factors(i)["safety_check"].confidence = requests[i].safety_scores[1][1]

\* C11 (content factor rule): a sensitive class is REJECT at every confidence;
\* a non-sensitive class is REVIEW below the threshold 0.7 and APPROVE at or
\* above it; the factor confidence is content_confidence in all three cases.
ContentFactorRule ==
  \A i \in Verdicts :
    LET content_class == requests[i].content_class[1]
        content_confidence == requests[i].content_confidence[1]
        f == Factors(i)["content_check"]
    IN  /\ f.confidence = content_confidence
        /\ f.result = IF content_class \in {413, 414, 415, 939, 940, 941, 508, 509, 510}
                      THEN "REJECT"
                      ELSE IF content_confidence < P(70) THEN "REVIEW" ELSE "APPROVE"

\* a non-sensitive class whose confidence equals the threshold: APPROVE
ContentFactorRuleWitness ==
  \E i \in Verdicts :
    /\ requests[i].content_class = <<281>>
    /\ requests[i].content_confidence = <<P(70)>>
    /\ Factors(i)["content_check"].result = "APPROVE"
    /\ Factors(i)["content_check"].confidence = P(70)

\* the text factor _make_moderation_decision computes for request i
TextFactor(i) == _evaluate_text(Text(i), requests[i].text_confidence)

\* C12 (text factor rule): for non-blank text without a blocked keyword the
\* factor confidence is the mean of text_confidence, 0.0 when it is empty, and
\* the factor is REVIEW when that mean is below 0.6 and APPROVE otherwise; text
\* with a blocked keyword is REJECT with confidence 0.9 whatever
\* text_confidence holds.  A verdict reports that factor.
TextFactorRule ==
  \A i \in 1..Len(requests) :
    {"ocr_text", "text_confidence"} \subseteq DOMAIN requests[i] =>
      LET data == requests[i].text_confidence.data
          f == TextFactor(i)
          hit == \E k \in 1..Len(blocked_keywords) : contains(Text(i), blocked_keywords[k])
      IN  /\ (~Blank(Text(i)) /\ ~hit) =>
                /\ Len(data) = 0 => (f.confidence = P(0) /\ f.result = "REVIEW")
                /\ Len(data) > 0 => Len(data) * f.confidence = SumSeq(data)
                /\ f.result = IF f.confidence < P(60) THEN "REVIEW" ELSE "APPROVE"
          /\ hit => (f.result = "REJECT" /\ f.confidence = P(90))
          /\ i \in Verdicts =>
                /\ Factors(i)["text_check"].result = f.result
                /\ Factors(i)["text_check"].confidence = f.confidence

\* a verdict on non-blank text without keyword whose mean OCR confidence, over
\* two different values, is exactly the threshold: APPROVE
TextFactorRuleWitness ==
  \E i \in Verdicts :
    /\ ~Blank(Text(i))
    /\ Len(requests[i].text_confidence.data) = 2
    /\ requests[i].text_confidence.data[1] # requests[i].text_confidence.data[2]
    /\ Factors(i)["text_check"].confidence = P(60)
    /\ Factors(i)["text_check"].result = "APPROVE"

\* a float outside [0,1]
OutOfRange(x) == x < P(0) \/ x > P(100)
AnyOutOfRange(s) == \E k \in 1..Len(s) : OutOfRange(s[k])

\* a request that breaks the input contract: a tensor is missing, the
\* safety_scores row has not its 5 entries [safe, nsfw, violence, hate, drugs],
\* or a confidence or score lies outside [0,1]
Malformed(request) ==
  \/ \E k \in 1..Len(InputNames) : InputNames[k] \notin DOMAIN request
  \/ Len(request.safety_scores) # 1
  \/ Len(request.safety_scores[1]) # 5
  \/ AnyOutOfRange(request.safety_scores[1])
  \/ AnyOutOfRange(request.content_confidence)
  \/ AnyOutOfRange(request.text_confidence.data)

\* C13: a malformed request never gets a verdict: its response is an error.
MalformedGetsError ==
  \A i \in 1..Len(responses) : Malformed(requests[i]) => responses[i].has_error

\* C14: a request whose risk_level is none of LOW, MEDIUM, HIGH gets an error
\* response, never a verdict.
UnknownRiskLevelGetsError ==
  \A i \in 1..Len(responses) :
    ( /\ "risk_level" \in DOMAIN requests[i]
      /\ requests[i].risk_level # <<>>
      /\ requests[i].risk_level[1] \notin {"LOW", "MEDIUM", "HIGH"} )
    => responses[i].has_error

\* the verdicts of the requests with is_safe false and risk_level HIGH
UnsafeHigh == {i \in Verdicts : requests[i].is_safe[1] = FALSE
                                 /\ requests[i].risk_level[1] = "HIGH"}

FactorUsed(i, n) ==
  CASE n = "safety_check" ->
         _evaluate_safety(requests[i].safety_scores[1], requests[i].is_safe[1],
                          requests[i].risk_level[1]).val
    [] n = "content_check" ->
         _evaluate_content(requests[i].content_class[1], requests[i].content_confidence[1])
    [] n = "text_check" -> TextFactor(i)

\* C16 (audit trail): every verdict carries decision_factors with exactly the
\* keys safety_check, content_check, text_check; the entry under each key is
\* the (result, confidence, reason) computed for that factor of the request;
\* decision and confidence are the fusion of the three entries of the map.
AuditTrail ==
  \A i \in Verdicts :
    /\ DOMAIN Factors(i) = {"safety_check", "content_check", "text_check"}
    /\ \A n \in DOMAIN Factors(i) :
         /\ DOMAIN Factors(i)[n] = {"result", "confidence", "reason"}
         /\ Factors(i)[n].result = FactorUsed(i, n).result
         /\ Factors(i)[n].confidence = FactorUsed(i, n).confidence
         /\ Factors(i)[n].reason = FactorUsed(i, n).reason
    /\ Verdict(i).moderation_decision = _combine_decision_factors(Factors(i)).decision
    /\ Verdict(i).confidence_score = _combine_decision_factors(Factors(i)).confidence

AuditTrailWitness ==
  \E i \in Verdicts :
    /\ Factors(i)["safety_check"].result = "APPROVE"
    /\ Factors(i)["content_check"].result = "REVIEW"
    /\ Factors(i)["text_check"].result = "REJECT"
    /\ Factors(i)["text_check"].reason # Factors(i)["content_check"].reason
    /\ Verdict(i).moderation_decision = "REJECTED"

\* the safety factor of every verdict follows from is_safe, risk_level and the
\* first two safety scores with the cutoff 0.3
SafetyFactorFixedCutoff ==
  \A i \in Verdicts :
    Factors(i)["safety_check"] =
      LET safe_score == requests[i].safety_scores[1][1]
          nsfw_score == requests[i].safety_scores[1][2]
      IN  IF ~requests[i].is_safe[1] \/ requests[i].risk_level[1] = "HIGH"
          THEN [result |-> "REJECT", confidence |-> P(95),
                reason |-> <<"Safety violation", <<>>>>]
          ELSE IF requests[i].risk_level[1] = "MEDIUM" \/ nsfw_score > P(30)
          THEN [result |-> "REVIEW", confidence |-> P(70),
                reason |-> <<"Moderate risk detected", <<>>>>]
          ELSE [result |-> "APPROVE", confidence |-> safe_score,
                reason |-> <<"Content appears safe", <<>>>>]

\* C17 (independence from safety_threshold): the response an engine gave to a
\* request is the response the engine gives to it under any other value of
\* safety_threshold, everything else equal (same decision, confidence and
\* factor verdicts, or the same error); under every threshold the safety
\* factor follows from is_safe, risk_level and the first two safety scores
\* with the fixed cutoff 0.3.
ThresholdIndependence ==
  /\ SafetyFactorFixedCutoff
  /\ \A i \in 1..Len(responses) : responses[i] = process_request(requests[i])

\* an engine whose safety_threshold 0.95 is above the safe score 0.9 of a
\* request it has approved
ThresholdIndependenceWitness ==
  /\ phase = "ready"
  /\ safety_threshold = P(95)
  /\ \E i \in Verdicts :
       /\ requests[i].safety_scores[1][1] = P(90)
       /\ Factors(i)["safety_check"].result = "APPROVE"
       /\ Verdict(i).moderation_decision = "APPROVED"

\* what every call holds is what its own request gives when processed alone
OwnResultsOnly ==
  \A c \in Calls :
    /\ calls[c].pc \in {"decide", "respond"} =>
         calls[c].inputs = _extract_inputs(calls[c].request).val
    /\ calls[c].pc = "respond" =>
         calls[c].decision_result =
           _make_moderation_decision(_extract_inputs(calls[c].request).val).val
    /\ calls[c].pc = "done" => calls[c].response = process_request(calls[c].request)

\* a step writes the locals of at most one call, and nothing of the engine
\* once it is initialized
WritesOwnLocalsOnly ==
  /\ \A c, d \in Calls : (c # d /\ calls'[c] # calls[c]) => calls'[d] = calls[d]
  /\ phase # "created" => config' = config

\* C18 (no interference): whatever the interleaving of the calls, each call
\* returns the response its own request gets when processed alone, and no step
\* of a call writes anything another call reads.
NoInterference == []OwnResultsOnly /\ [][WritesOwnLocalsOnly]_vars

\* one call has returned a verdict while another call, on a different request,
\* is between its decision and its response
NoInterferenceWitness ==
  \E c, d \in Calls :
    /\ calls[c].pc = "respond"
    /\ calls[d].pc = "done"
    /\ calls[d].request # calls[c].request
    /\ ~calls[d].response.has_error
    /\ calls[d].response.output_tensors.moderation_decision # <<calls[c].decision_result.moderation_decision>>

\* C19 (batch association): execute over n requests returns n responses, and
\* the response at position i is the verdict or the error that request i gets
\* when it is the only request; a verdict echoes the OCR text, the content
\* class, the safety scores and the risk level of request i.
BatchAssociation ==
  /\ Len(responses) = Len(requests)
  /\ \A i \in 1..Len(requests) :
       /\ responses[i] = process_request(requests[i])
       /\ i \in Verdicts =>
            /\ Verdict(i).extracted_text = requests[i].ocr_text
            /\ Verdict(i).processing_metadata.content_class_id = requests[i].content_class[1]
            /\ Verdict(i).processing_metadata.safety_scores = requests[i].safety_scores[1]
            /\ Verdict(i).processing_metadata.risk_level = requests[i].risk_level[1]

\* a batch of two whose first request ends in an error and whose second is
\* rejected for a keyword of its own text
BatchAssociationWitness ==
  /\ Len(requests) = 2
  /\ responses[1].has_error
  /\ 2 \in Verdicts
  /\ Verdict(2).moderation_decision = "REJECTED"
  /\ Verdict(2).extracted_text = << <<"H","A","T","E">> >>

\* the configuration initialize() sets
ConfigOfInitialize ==
  /\ safety_threshold = P(85)
  /\ content_confidence_threshold = P(70)
  /\ text_confidence_threshold = P(60)
  /\ sensitive_categories = {413, 414, 415, 939, 940, 941, 508, 509, 510}
  /\ blocked_keywords = << <<"v","i","o","l","e","n","c","e">>,
                           <<"w","e","a","p","o","n">>,
                           <<"h","a","t","e">>,
                           <<"d","i","s","c","r","i","m","i","n","a","t","i","o","n">>,
                           <<"i","l","l","e","g","a","l">>,
                           <<"d","r","u","g","s">>,
                           <<"e","x","p","l","i","c","i","t">>,
                           <<"i","n","a","p","p","r","o","p","r","i","a","t","e">> >>

\* C20 (immutable configuration): once initialize has run, no execute call,
\* ending in verdicts or in errors, and no finalize changes a threshold, the
\* sensitive category set or the blocked keyword list; after any sequence of
\* requests the configuration is the one initialize set.
ConfigImmutable ==
  /\ [](phase # "created" => ConfigOfInitialize)
  /\ [][phase # "created" => config' = config]_vars

\* after a batch with an error response and a rejected sensitive class, the
\* configuration is the one initialize set
ConfigImmutableWitness ==
  /\ phase = "ready"
  /\ ConfigOfInitialize
  /\ \E i \in 1..Len(responses) : responses[i].has_error
  /\ \E i \in Verdicts : /\ Verdict(i).moderation_decision = "REJECTED"
                         /\ requests[i].content_class[1] \in sensitive_categories

\* a class id as sensitive as id that is named the other way: out of the
\* category name table when id is in it, in it when id is not
OtherlyNamed(id) ==
  IF id \in {413, 414, 415, 939, 940, 941, 508, 509, 510}
  THEN (IF id \in {281, 285, 413, 939} THEN 414 ELSE 413)
  ELSE (IF id \in {281, 285, 413, 939} THEN 500 ELSE 281)

\* C21 (category name lookup): content_category is the table name for the ids
\* 281, 285, 413, 939 and "class_" followed by the id for every other id; the
\* same request with an equally sensitive class id that is named the other way
\* also gets a verdict, with the same decision and confidence.
CategoryLookup ==
  \A i \in Verdicts :
    LET id == requests[i].content_class[1]
        other == process_request([requests[i] EXCEPT !.content_class = <<OtherlyNamed(id)>>])
    IN  /\ Verdict(i).content_category =
             CASE id = 281 -> <<"tabby_cat", <<>>>>
               [] id = 285 -> <<"egyptian_cat", <<>>>>
               [] id = 413 -> <<"assault_rifle", <<>>>>
               [] id = 939 -> <<"bikini", <<>>>>
               [] OTHER -> <<"class_", id>>
        /\ ~other.has_error
        /\ other.output_tensors.moderation_decision = <<Verdict(i).moderation_decision>>
        /\ other.output_tensors.confidence_score = <<Verdict(i).confidence_score>>
        /\ other.output_tensors.content_category # <<Verdict(i).content_category>>

\* an id outside the table, approved
CategoryLookupWitness ==
  \E i \in Verdicts :
    /\ requests[i].content_class = <<500>>
    /\ Verdict(i).content_category = <<"class_", 500>>
    /\ Verdict(i).moderation_decision = "APPROVED"

\* C22 (extracted_text pass-through): the extracted_text of every verdict is
\* the ocr_text of the request: as many fragments, in the same order, each
\* with its own characters in their original case; nothing of the joined,
\* lowercased text of the keyword scan shows.
ExtractedTextPassThrough ==
  \A i \in Verdicts :
    /\ Len(Verdict(i).extracted_text) = Len(requests[i].ocr_text)
    /\ \A k \in 1..Len(requests[i].ocr_text) :
         Verdict(i).extracted_text[k] = requests[i].ocr_text[k]

\* two fragments, the first in upper case and rejected as a keyword
ExtractedTextPassThroughWitness ==
  \E i \in Verdicts :
    /\ requests[i].ocr_text = << <<"H","A","T","E">>, <<"c","a","t">> >>
    /\ Verdict(i).extracted_text = << <<"H","A","T","E">>, <<"c","a","t">> >>
    /\ Factors(i)["text_check"].result = "REJECT"

\* the sequence s without its i-th element
RemoveAt(s, i) == [j \in 1..(Len(s) - 1) |-> IF j < i THEN s[j] ELSE s[j + 1]]

\* C23 (error isolation): no response of a batch is dropped; a request whose
\* processing raises gets an error response with the message of the exception
\* and no output tensors, and the other requests of the batch, before and
\* after it, have the responses they get in the batch without that request.
ErrorIsolation ==
  /\ Len(responses) = Len(requests)
  /\ \A i \in 1..Len(requests) :
       (~_extract_inputs(requests[i]).ok
        \/ ~_make_moderation_decision(_extract_inputs(requests[i]).val).ok)
       => /\ responses[i].has_error
          /\ DOMAIN responses[i] = {"has_error", "error"}
          /\ responses[i].error[1] = "Processing error: "
          /\ RemoveAt(responses, i) =
               [j \in 1..(Len(requests) - 1) |-> process_request(RemoveAt(requests, i)[j])]

\* a batch of two: the first request is approved, the second fails in
\* json.dumps
ErrorIsolationWitness ==
  /\ Len(requests) = 2
  /\ 1 \in Verdicts
  /\ Verdict(1).moderation_decision = "APPROVED"
  /\ responses[2].has_error
  /\ responses[2].error[2][1] = "TypeError"

\* how far a call has got: requests done, then the stage within the request
Progress(r) ==
  r.i * (Len(blocked_keywords) + 3)
    + (CASE r.pc = "request" -> 0
         [] r.pc = "scan" -> r.keyword
         [] r.pc = "finish" -> Len(blocked_keywords) + 2
         [] r.pc = "returned" -> 1
         [] OTHER -> 0)

\* every step inside a call moves forward: a request is taken once, a keyword
\* is compared once per request, nothing is gone over again
NoRetry ==
  (run.pc \in {"request", "scan", "finish"} /\ run' # run) =>
     /\ Progress(run') > Progress(run)
     /\ run'.requests = run.requests
     /\ run'.i \in {run.i, run.i + 1}
     /\ run'.keyword <= Len(blocked_keywords) + 1

\* a call returns one response per request, in request order
ReturnsResponses ==
  run.pc = "returned" => run.responses = [i \in 1..Len(run.requests) |-> i]

\* C24 (termination): every execute call that is entered returns, with one
\* response per request; every step of the call moves forward through the
\* requests and, within a request, through the keyword list, so no request and
\* no keyword is gone over twice.
Termination ==
  /\ (run.pc # "idle") ~> (run.pc = "returned")
  /\ []ReturnsResponses
  /\ [][NoRetry]_vars

\* a call of two requests has returned; the text of the second held no
\* keyword, so its scan went through the whole list
TerminationWitness ==
  /\ run.pc = "returned"
  /\ Len(run.requests) = 2
  /\ Len(run.responses) = 2
  /\ run.requests[2].ocr_text = << <<"c","a","t">> >>

\* the verdict records in the body of the last exchange
VerdictRecords ==
  IF api.app = "none" \/ api.status # 200 THEN {}
  ELSE IF api.endpoint = "/moderate-image" THEN {api.body}
  ELSE {api.body.batch_results[k] : k \in
          {j \in 1..Len(api.body.batch_results) :
             "error" \notin DOMAIN api.body.batch_results[j]}}

\* C25: every verdict record a backend returns has a moderation decision among
\* APPROVED, REVIEW_REQUIRED, REJECTED, and it is the decision the fusion rule
\* gives for the decision factors in the record's metadata.
DecisionAgreesWithFactors ==
  \A v \in VerdictRecords :
    /\ v.moderation_decision \in {"APPROVED", "REVIEW_REQUIRED", "REJECTED"}
    /\ v.moderation_decision =
         _combine_decision_factors(v.processing_metadata.decision_factors).decision

\* the last exchange was a POST /batch-moderate, of either backend
BatchExchange == api.app # "none" /\ api.endpoint = "/batch-moderate"

\* C26 (batch size limit): /batch-moderate with more than 10 files answers 400
\* "Maximum 10 images per batch" having read no file and made no inference;
\* with 10 files or fewer it never gives that answer.
BatchSizeLimit ==
  BatchExchange =>
    IF Len(api.files) > 10
    THEN /\ api.status = 400
         /\ api.detail = "Maximum 10 images per batch"
         /\ api.files_read = 0
         /\ api.inferences = 0
    ELSE /\ api.status # 400
         /\ "detail" \in DOMAIN api => api.detail # "Maximum 10 images per batch"

\* eleven images sent to the demo backend are refused
BatchSizeLimitWitness ==
  /\ BatchExchange
  /\ api.app = "simple_app"
  /\ Len(api.files) = 11
  /\ \A k \in 1..11 : ~invalid_file_type(api.files[k]) /\ api.files[k].image.opens
  /\ api.status = 400
  /\ api.files_read = 0

\* C27 (batch result accounting): when /batch-moderate answers 200,
\* batch_results has one entry per uploaded file, in upload order, each with
\* the filename of its file (an error entry for a file of invalid type, else
\* the result computed from that file's image); total_images is the number of
\* files, processed_images the number of entries without error, and
\* processed_images plus the number of error entries is total_images.
BatchAccounting ==
  (BatchExchange /\ api.status = 200) =>
    LET results == api.body.batch_results
        errors == {k \in 1..Len(results) : "error" \in DOMAIN results[k]}
    IN  /\ Len(results) = Len(api.files)
        /\ \A k \in 1..Len(results) :
             /\ results[k].filename = api.files[k].filename
             /\ k \in errors <=> invalid_file_type(api.files[k])
             /\ k \notin errors =>
                  results[k].processing_metadata.image_properties.pixel_variance
                    = api.files[k].image.pixel_variance
        /\ api.body.total_images = Len(api.files)
        /\ api.body.processed_images = Len(results) - Cardinality(errors)
        /\ api.body.processed_images + Cardinality(errors) = api.body.total_images

\* a text file followed by an image: one error entry, one result
BatchAccountingWitness ==
  /\ BatchExchange
  /\ api.status = 200
  /\ Len(api.files) = 2
  /\ "error" \in DOMAIN api.body.batch_results[1]
  /\ "error" \notin DOMAIN api.body.batch_results[2]
  /\ api.body.batch_results[2].filename = 2
  /\ api.body.processed_images = 1
  /\ api.body.total_images = 2

====
